---- MODULE Spec2Model ----
(***************************************************************************)
(* A model of pytask_scheduler/objects/objects.py: the TaskScheduler /     *)
(* TaskFolder wrappers over the task scheduling provider, the recursive    *)
(* folder walker, task creation, and the TasksDataFrame day-window         *)
(* queries.                                                                *)
(*                                                                         *)
(* The provider (the Schedule.Service object model) is held as two         *)
(* functions over folder paths: subs[p] is the listing of p's subfolder    *)
(* names (GetFolders(0)), tasks[p] the listing of p's registered tasks     *)
(* (GetTasks(0)).  A path is the sequence of folder names from the root;   *)
(* the root folder "\" is the empty sequence.                              *)
(***************************************************************************)
EXTENDS Integers, Sequences, FiniteSets, TLC

VARIABLES subs, tasks, handles, ret, df

vars == <<subs, tasks, handles, ret, df>>

(***************************************************************************)
(* Bounds of the model.                                                    *)
(***************************************************************************)
MaxFolders == 2
MaxTasks == 1
WalkFolders == 3
WalkTasks == 2
MaxRows == 2

FolderNames == {"A", "B"}
TaskNames == {"t1", "t2"}

Root == <<>>

\* Python's interpreter stops a recursion deeper than its recursion limit
\* with RecursionError.  A walk of a tree of at most WalkFolders folders that
\* descends the tree needs at most WalkFolders + 1 frames, so this limit is
\* hit only by a recursion that does not descend.
RecursionLimit == WalkFolders + 2

(***************************************************************************)
(* Sequence helpers.                                                       *)
(***************************************************************************)
Range(s) == {s[i] : i \in 1..Len(s)}

RECURSIVE Concat(_)
Concat(ss) == IF ss = <<>> THEN <<>> ELSE Head(ss) \o Concat(Tail(ss))

RECURSIVE SumLen(_, _)
SumLen(f, D) ==
    IF D = {} THEN 0
    ELSE LET p == CHOOSE q \in D : TRUE IN Len(f[p]) + SumLen(f, D \ {p})

Without(s, x) == SelectSeq(s, LAMBDA y : y # x)

Names(ts) == [i \in 1..Len(ts) |-> ts[i].name]

NoRet == [op |-> "none", outcome |-> "none",
          arg |-> [h |-> "None", folder |-> <<>>, name |-> "None"], val |-> <<>>]

(***************************************************************************)
(* The provider.                                                           *)
(***************************************************************************)
Folders == DOMAIN subs

NumFolders == Cardinality(Folders) - 1

NumTasks == SumLen(tasks, Folders)

\* ITaskFolder.CreateFolder: a new, empty subfolder at the end of the
\* parent's listing; refused when the parent is gone or the name is taken.
ProviderCanCreateFolder(path, name) ==
    /\ path \in Folders
    /\ name \notin Range(subs[path])

ProviderCreateFolder(path, name) ==
    /\ subs' = [q \in Folders \cup {Append(path, name)} |->
                  IF q = Append(path, name) THEN <<>>
                  ELSE IF q = path THEN Append(subs[path], name)
                  ELSE subs[q]]
    /\ tasks' = [q \in Folders \cup {Append(path, name)} |->
                  IF q = Append(path, name) THEN <<>> ELSE tasks[q]]

\* ITaskFolder.DeleteFolder: removes an empty subfolder; refused when the
\* subfolder is absent or still holds tasks or subfolders.
ProviderCanDeleteFolder(path, name) ==
    /\ path \in Folders
    /\ name \in Range(subs[path])
    /\ subs[Append(path, name)] = <<>>
    /\ tasks[Append(path, name)] = <<>>

ProviderDeleteFolder(path, name) ==
    /\ subs' = [q \in Folders \ {Append(path, name)} |->
                  IF q = path THEN Without(subs[path], name) ELSE subs[q]]
    /\ tasks' = [q \in Folders \ {Append(path, name)} |-> tasks[q]]

TASK_CREATE == "TASK_CREATE"
TASK_UPDATE == "TASK_UPDATE"
TASK_CREATE_OR_UPDATE == "TASK_CREATE_OR_UPDATE"

\* ITaskFolder.RegisterTaskDefinition under the creation flags: TASK_CREATE
\* refuses a name that is registered, TASK_UPDATE one that is not, and
\* TASK_CREATE_OR_UPDATE does whichever applies.
ProviderRegisterOutcome(path, name, flags) ==
    IF path \notin Folders THEN "ProviderError"
    ELSE IF flags = TASK_CREATE /\ name \in Range(Names(tasks[path]))
        THEN "AlreadyExists"
    ELSE IF flags = TASK_UPDATE /\ name \notin Range(Names(tasks[path]))
        THEN "ProviderError"
    ELSE IF flags \notin {TASK_CREATE, TASK_UPDATE, TASK_CREATE_OR_UPDATE}
        THEN "ProviderError"
    ELSE "ok"

ProviderRegisterTaskDefinition(path, name, taskdef, flags) ==
    LET new == [name |-> name, def |-> taskdef] IN
    /\ tasks' = [tasks EXCEPT ![path] =
                   IF name \in Range(Names(@))
                   THEN [i \in 1..Len(@) |-> IF @[i].name = name THEN new ELSE @[i]]
                   ELSE Append(@, new)]
    /\ subs' = subs

\* ITaskFolder.GetTask: the registered task of that name in the folder.
ProviderGetTask(path, name) ==
    LET i == CHOOSE k \in 1..Len(tasks[path]) : tasks[path][k].name = name
    IN tasks[path][i]

ProviderHasTask(path, name) ==
    /\ path \in Folders
    /\ name \in Range(Names(tasks[path]))

(***************************************************************************)
(* TaskFolder: the wrapper's folder handle.  Its constructor reads the     *)
(* folder's subfolder and task names once and keeps them in the handle.    *)
(***************************************************************************)
TaskFolder(path) ==
    [folder |-> path,
     subfolders |-> subs[path],
     tasks |-> Names(tasks[path])]

\* RegisteredTask.info(): the record of one registered task.
info(path, rtask) ==
    [name |-> rtask.name,
     task_path |-> Append(path, rtask.name),
     task_description |-> rtask.def.description]

(***************************************************************************)
(* TaskScheduler.__find_folder and get_folder.                             *)
(***************************************************************************)
NotFound == [found |-> FALSE, path |-> <<>>]

RECURSIVE find_folder(_, _), find_folder_from(_, _, _)
RECURSIVE find_folder_from_siblings_first(_, _, _)
\* a search that tests all of a folder's subfolders before descending
find_folder_from_siblings_first(folder, folder_name, i) ==
    IF \E j \in i..Len(subs[folder]) : subs[folder][j] = folder_name
    THEN [found |-> TRUE, path |-> Append(folder, folder_name)]
    ELSE IF i > Len(subs[folder]) THEN NotFound
    ELSE LET fpath == find_folder(Append(folder, subs[folder][i]), folder_name) IN
         IF fpath.found THEN fpath
         ELSE find_folder_from_siblings_first(folder, folder_name, i + 1)

\* the loop over folder.GetFolders(0), from the i-th subfolder on
find_folder_from(folder, folder_name, i) ==
    IF i > Len(subs[folder]) THEN NotFound
    ELSE LET subfolder == Append(folder, subs[folder][i]) IN
         IF subs[folder][i] = folder_name
         THEN [found |-> TRUE, path |-> subfolder]
         ELSE LET fpath == find_folder(subfolder, folder_name) IN
              IF fpath.found THEN fpath
              ELSE find_folder_from(folder, folder_name, i + 1)

find_folder(folder, folder_name) == find_folder_from(folder, folder_name, 1)

\* get_folder(folder_name); folder_name "None" stands for Python's None.
get_folder(folder_name) ==
    IF folder_name = "None"
    THEN [outcome |-> "ok", handle |-> TaskFolder(Root)]
    ELSE LET folder_path == find_folder(Root, folder_name) IN
         IF folder_path.found
         THEN [outcome |-> "ok", handle |-> TaskFolder(folder_path.path)]
         ELSE [outcome |-> "ValueError", handle |-> <<>>]

(***************************************************************************)
(* The folder walker: __list_tasks_info_in_folder and get_all_tasks.       *)
(* depth counts the frames still allowed before RecursionError.            *)
(***************************************************************************)
\* TaskFolder.get_task on a handle: the presence test reads the handle's
\* own task list, then the provider is asked for the task.
get_task_outcome(h, task_name) ==
    IF task_name \in Range(h.tasks)
    THEN IF ProviderHasTask(h.folder, task_name) THEN "ok" ELSE "ProviderError"
    ELSE "ValueError"

RECURSIVE list_tasks_info_in_folder(_, _), walk_subfolders(_, _, _, _)
walk_subfolders(folder, i, tasks_info_list, depth) ==
    IF i > Len(folder.subfolders)
    THEN [outcome |-> "ok", list |-> tasks_info_list]
    ELSE LET sf == folder.subfolders[i]
             subfolder == get_folder(sf)
         IN  IF subfolder.outcome # "ok"
             THEN [outcome |-> subfolder.outcome, list |-> tasks_info_list]
             ELSE LET r == list_tasks_info_in_folder(subfolder.handle, depth - 1)
                  IN  IF r.outcome # "ok"
                      THEN [outcome |-> r.outcome, list |-> tasks_info_list \o r.list]
                      ELSE walk_subfolders(folder, i + 1,
                                           tasks_info_list \o r.list, depth)

list_tasks_info_in_folder(folder, depth) ==
    IF depth = 0
    THEN [outcome |-> "RecursionError", list |-> <<>>]
    ELSE LET own == [i \in 1..Len(folder.tasks) |->
                       info(folder.folder, ProviderGetTask(folder.folder, folder.tasks[i]))]
         IN  walk_subfolders(folder, 1, own, depth)

\* pl.DataFrame(tasks_info_list) followed by TasksDataFrame(df).preprocess():
\* a frame made from an empty list has no columns, and preprocess then
\* fails on the first column it names
frame_of_tasks_info(tasks_info_list) ==
    IF tasks_info_list = <<>>
    THEN [outcome |-> "ColumnNotFoundError", list |-> <<>>]
    ELSE [outcome |-> "ok", list |-> tasks_info_list]

get_all_tasks ==
    LET root_folder == get_folder("None")
        r == list_tasks_info_in_folder(root_folder.handle, RecursionLimit)
    IN  IF r.outcome # "ok" THEN r ELSE frame_of_tasks_info(r.list)

(***************************************************************************)
(* TaskFolder's operations.  Each presence test reads the handle's own     *)
(* subfolders / tasks lists (the ones its constructor filled); the call    *)
(* that follows goes to the provider, whose refusal surfaces unchanged as  *)
(* a provider error.                                                       *)
(***************************************************************************)
create_folder_outcome(h, folder_name) ==
    IF folder_name \in Range(h.subfolders) THEN "ValueError"
    ELSE IF ProviderCanCreateFolder(h.folder, folder_name) THEN "ok"
    ELSE "ProviderError"

delete_folder_outcome(h, folder_name) ==
    IF folder_name \in Range(h.subfolders)
    THEN IF ProviderCanDeleteFolder(h.folder, folder_name) THEN "ok"
         ELSE "ProviderError"
    ELSE "ValueError"

\* register_new_task passing the create-only flag
register_new_task_flags_create_only == TASK_CREATE

\* the creation flags register_new_task passes
register_new_task_flags == TASK_CREATE_OR_UPDATE

register_new_task_outcome(h, task_name) ==
    ProviderRegisterOutcome(h.folder, task_name, register_new_task_flags)

register_new_task(h, task_name, new_taskdef) ==
    ProviderRegisterTaskDefinition(h.folder, task_name, new_taskdef,
                                   register_new_task_flags)

(***************************************************************************)
(* Task definitions and their builders.  A task definition object holds    *)
(* the triggers and actions created on it, its description and settings.   *)
(* Property writes on provider objects are taken to succeed.  NonePy is    *)
(* Python's None.                                                          *)
(***************************************************************************)
NonePy == [py |-> "None"]

NewTaskDef == [triggers |-> <<>>, actions |-> <<>>, description |-> "",
               settings |-> <<>>]

TriggerTypes == {"daily", "weekly", "monthly", "monthlydow", "one-time"}
ActionTypes == {"exec", "com-handler", "email", "show-message"}
Descriptions == {"d1"}

SettingsFields == <<"AllowDemandStart", "StartWhenAvailable", "Enabled", "Hidden",
                    "RestartInterval", "RestartCount", "ExecutionTimeLimit",
                    "MultipleInstances">>

\* TaskTrigger.__set_cadence: Triggers.Create(trigger_type)
set_cadence(taskdef, trigger_type) ==
    [taskdef EXCEPT !.triggers = Append(@, trigger_type)]

\* Each builder gives the definition object as the builder left it (obj) and
\* what the method returns (returned: TRUE for the object, FALSE for None).
create_daily_trigger(taskdef) ==
    [obj |-> set_cadence(taskdef, "TASK_TRIGGER_DAILY"), returned |-> TRUE]

create_weekly_trigger(taskdef) ==
    [obj |-> set_cadence(taskdef, "TASK_TRIGGER_WEEKLY"), returned |-> TRUE]

\* a monthly builder that creates both monthly variants
create_monthly_trigger_both(taskdef, trigger_type) ==
    [obj |-> set_cadence(set_cadence(taskdef, "TASK_TRIGGER_MONTHLY"),
                         "TASK_TRIGGER_MONTHLYDOW"),
     returned |-> TRUE]

create_monthly_trigger(taskdef, trigger_type) ==
    [obj |-> IF trigger_type = "month"
                THEN set_cadence(taskdef, "TASK_TRIGGER_MONTHLY")
             ELSE IF trigger_type = "dow"
                THEN set_cadence(taskdef, "TASK_TRIGGER_MONTHLYDOW")
             ELSE taskdef,
     returned |-> TRUE]

\* create_one_time_trigger ends without a return statement
create_one_time_trigger(taskdef) ==
    [obj |-> set_cadence(taskdef, "TASK_TRIGGER_TIME"), returned |-> FALSE]

\* the match on trigger_type in create_task
build_trigger(taskdef, trigger_type) ==
    CASE trigger_type = "daily" -> create_daily_trigger(taskdef)
      [] trigger_type = "weekly" -> create_weekly_trigger(taskdef)
      [] trigger_type = "monthly" -> create_monthly_trigger(taskdef, "month")
      [] trigger_type = "monthlydow" -> create_monthly_trigger(taskdef, "dow")
      [] trigger_type = "one-time" -> create_one_time_trigger(taskdef)
      [] OTHER -> [obj |-> taskdef, returned |-> TRUE]

\* TaskAction.create_execution_action
create_execution_action(taskdef) ==
    [taskdef EXCEPT !.actions = Append(@, "TASK_ACTION_EXEC")]

\* the eight Settings writes, in their order
write_settings(taskdef, settings) ==
    [taskdef EXCEPT !.settings = [i \in 1..Len(SettingsFields) |->
                                    <<SettingsFields[i], settings[i]>>]]

(***************************************************************************)
(* TaskScheduler.create_task, statement by statement.  A context c holds   *)
(* the outcome so far ("ok" while no statement has raised), the folder     *)
(* handle, the definition object, whether the local new_taskdef still      *)
(* refers to it (returned) and the statements executed, in order.  A       *)
(* statement after a raise is not executed.                                *)
(***************************************************************************)
step_get_folder(folder_name) ==
    LET folder == get_folder(folder_name) IN
    [outcome |-> folder.outcome, folder |-> folder.handle, obj |-> NonePy,
     returned |-> TRUE, calls |-> <<"get_folder">>]

step_new_task(c) ==
    IF c.outcome # "ok" THEN c
    ELSE [c EXCEPT !.obj = NewTaskDef, !.calls = Append(@, "NewTask")]

step_trigger(c, trigger_type) ==
    IF c.outcome # "ok" THEN c
    ELSE LET t == build_trigger(c.obj, trigger_type) IN
         [c EXCEPT !.obj = t.obj, !.returned = t.returned,
                   !.calls = Append(@, "trigger")]

\* the action match with the unsupported kinds passed over in silence
step_action_silent(c, action_type) ==
    IF c.outcome # "ok" THEN c
    ELSE IF ~c.returned THEN [c EXCEPT !.outcome = "AttributeError"]
    ELSE [c EXCEPT !.obj = create_execution_action(@),
                   !.calls = Append(@, "action")]

step_action(c, action_type) ==
    IF c.outcome # "ok" THEN c
    ELSE IF action_type = "exec"
    THEN IF ~c.returned
         THEN [c EXCEPT !.outcome = "AttributeError"]
         ELSE [c EXCEPT !.obj = create_execution_action(@),
                        !.calls = Append(@, "action")]
    ELSE IF action_type \in {"com-handler", "email", "show-message"}
    THEN [c EXCEPT !.outcome = "NotImplementedError"]
    ELSE c

step_description(c, task_description) ==
    IF c.outcome # "ok" THEN c
    ELSE IF ~c.returned THEN [c EXCEPT !.outcome = "AttributeError"]
    ELSE [c EXCEPT !.obj = [@ EXCEPT !.description = task_description],
                   !.calls = Append(@, "description")]

step_settings(c, settings) ==
    IF c.outcome # "ok" THEN c
    ELSE [c EXCEPT !.obj = write_settings(@, settings),
                   !.calls = @ \o SettingsFields]

\* create_task with the description written before the action is created
create_task_build_swapped(folder_name, trigger_type, action_type, task_description, settings) ==
    LET c1 == step_get_folder(folder_name)
        c2 == step_new_task(c1)
        c3 == step_trigger(c2, trigger_type)
        c4 == step_description(c3, task_description)
        c5 == step_action(c4, action_type)
    IN  step_settings(c5, settings)

\* create_task up to, and without, its folder.register_new_task call
create_task_build(folder_name, trigger_type, action_type, task_description, settings) ==
    LET c1 == step_get_folder(folder_name)
        c2 == step_new_task(c1)
        c3 == step_trigger(c2, trigger_type)
        c4 == step_action(c3, action_type)
        c5 == step_description(c4, task_description)
    IN  step_settings(c5, settings)

(***************************************************************************)
(* The calls a client makes in a session.  handles[k] is a TaskFolder the  *)
(* client holds (NonePy when the slot is empty); ret is the call made      *)
(* last: its name, its outcome ("ok" or the exception raised), the slot of *)
(* the handle and the name it was given, and what it returned (for a       *)
(* registration: the definition passed and whether the folder held the     *)
(* name when the call was made).                                           *)
(***************************************************************************)
Slots == {"h1"}

Held == {k \in Slots : handles[k] # NonePy}

\* k is the slot of the handle used ("fresh" for one made within the call)
\* and folder the path of that handle's folder
Call(op, outcome, k, folder, name, val) ==
    [op |-> op, outcome |-> outcome,
     arg |-> [h |-> k, folder |-> folder, name |-> name], val |-> val]

\* scheduler.get_folder(name), the handle kept in slot k
GetFolder(k, folder_name) ==
    LET r == get_folder(folder_name) IN
    /\ handles' = IF r.outcome = "ok" THEN [handles EXCEPT ![k] = r.handle]
                  ELSE handles
    /\ ret' = Call("get_folder", r.outcome, k, <<>>, folder_name,
                   IF r.outcome = "ok" THEN r.handle.folder ELSE <<>>)
    /\ UNCHANGED <<subs, tasks, df>>

\* handles[k].create_folder(name); the TaskFolder it returns is kept in
\* slot j, or dropped when j = "None"
CreateFolder(k, j, folder_name) ==
    LET h == handles[k]
        outcome == create_folder_outcome(h, folder_name)
        new_folder == [folder |-> Append(h.folder, folder_name),
                       subfolders |-> <<>>, tasks |-> <<>>]
    IN
    /\ k \in Held
    /\ outcome = "ok" => NumFolders < MaxFolders
    /\ IF outcome = "ok"
       THEN /\ ProviderCreateFolder(h.folder, folder_name)
            /\ handles' = IF j = "None" THEN handles
                          ELSE [handles EXCEPT ![j] = new_folder]
       ELSE UNCHANGED <<subs, tasks, handles>>
    /\ ret' = Call("create_folder", outcome, k, h.folder, folder_name, <<>>)
    /\ UNCHANGED df

\* handles[k].delete_folder(name)
DeleteFolder(k, folder_name) ==
    LET h == handles[k]
        outcome == delete_folder_outcome(h, folder_name)
    IN
    /\ k \in Held
    /\ IF outcome = "ok"
       THEN ProviderDeleteFolder(h.folder, folder_name)
       ELSE UNCHANGED <<subs, tasks>>
    /\ ret' = Call("delete_folder", outcome, k, h.folder, folder_name, <<>>)
    /\ UNCHANGED <<handles, df>>

\* handles[k].get_task(name)
GetTask(k, task_name) ==
    LET h == handles[k]
        outcome == get_task_outcome(h, task_name)
    IN
    /\ k \in Held
    /\ ret' = Call("get_task", outcome, k, h.folder, task_name,
                   IF outcome = "ok" THEN ProviderGetTask(h.folder, task_name)
                   ELSE NonePy)
    /\ UNCHANGED <<subs, tasks, handles, df>>

\* handles[k].info()
Info(k) ==
    LET h == handles[k] IN
    /\ k \in Held
    /\ ret' = Call("info", "ok", k, h.folder, "None",
                   [subfolders |-> h.subfolders, tasks |-> h.tasks])
    /\ UNCHANGED <<subs, tasks, handles, df>>

\* handles[k].register_new_task(name, taskdef)
RegisterNewTask(k, task_name, new_taskdef) ==
    LET h == handles[k]
        outcome == register_new_task_outcome(h, task_name)
    IN
    /\ k \in Held
    /\ (outcome = "ok" /\ ~ProviderHasTask(h.folder, task_name)) => NumTasks < MaxTasks
    /\ IF outcome = "ok"
       THEN register_new_task(h, task_name, new_taskdef)
       ELSE UNCHANGED <<subs, tasks>>
    /\ ret' = Call("register_new_task", outcome, k, h.folder, task_name,
                   [def |-> new_taskdef,
                    existed |-> ProviderHasTask(h.folder, task_name)])
    /\ UNCHANGED <<handles, df>>

\* the definitions a caller of register_new_task builds
TaskDefs ==
    {[NewTaskDef EXCEPT !.triggers = <<"TASK_TRIGGER_DAILY">>,
                        !.actions = <<"TASK_ACTION_EXEC">>,
                        !.description = d] : d \in {"d1", "d2"}}

Init ==
    /\ subs = (Root :> <<>>)
    /\ tasks = (Root :> <<>>)
    /\ handles = [k \in Slots |-> NonePy]
    /\ ret = NoRet
    /\ df = <<>>

Next ==
    \/ \E k \in Slots, n \in FolderNames \cup {"None"} : GetFolder(k, n)
    \/ \E k \in Slots, j \in {"None"} \cup Slots, n \in FolderNames :
          CreateFolder(k, j, n)
    \/ \E k \in Slots, n \in FolderNames : DeleteFolder(k, n)
    \/ \E k \in Slots, n \in TaskNames : GetTask(k, n)
    \/ \E k \in Slots : Info(k)
    \/ \E k \in Slots, n \in TaskNames, d \in TaskDefs : RegisterNewTask(k, n, d)

Spec == Init /\ [][Next]_vars

(***************************************************************************)
(* Task creation.  The provider starts with one folder, A, under the root. *)
(***************************************************************************)
\* scheduler.create_task(...)
CreateTask(folder_name, trigger_type, action_type, task_name, task_description, settings) ==
    LET c == create_task_build(folder_name, trigger_type, action_type,
                               task_description, settings)
        outcome == IF c.outcome = "ok"
                   THEN register_new_task_outcome(c.folder, task_name)
                   ELSE c.outcome
        calls == IF c.outcome = "ok" THEN Append(c.calls, "register_new_task")
                 ELSE c.calls
        path == IF c.folder = <<>> THEN <<>> ELSE c.folder.folder
    IN
    /\ (outcome = "ok" /\ ~ProviderHasTask(path, task_name)) => NumTasks < MaxTasks
    /\ IF outcome = "ok"
       THEN register_new_task(c.folder, task_name, c.obj)
       ELSE UNCHANGED <<subs, tasks>>
    /\ ret' = Call("create_task", outcome, "fresh", path, task_name,
                   [trigger_type |-> trigger_type, action_type |-> action_type,
                    folder_name |-> folder_name, obj |-> c.obj, calls |-> calls,
                    existed |-> ProviderHasTask(path, task_name)])
    /\ UNCHANGED <<handles, df>>

\* scheduler.get_folder(folder_name).register_new_task(task_name, taskdef)
RegisterIn(folder_name, task_name, new_taskdef) ==
    LET f == get_folder(folder_name)
        outcome == IF f.outcome = "ok"
                   THEN register_new_task_outcome(f.handle, task_name)
                   ELSE f.outcome
        path == IF f.outcome = "ok" THEN f.handle.folder ELSE <<>>
    IN
    /\ (outcome = "ok" /\ ~ProviderHasTask(path, task_name)) => NumTasks < MaxTasks
    /\ IF outcome = "ok"
       THEN register_new_task(f.handle, task_name, new_taskdef)
       ELSE UNCHANGED <<subs, tasks>>
    /\ ret' = Call("register_new_task", outcome, "fresh", path, task_name,
                   [def |-> new_taskdef, existed |-> ProviderHasTask(path, task_name)])
    /\ UNCHANGED <<handles, df>>

\* the settings a caller passes, in SettingsFields' order
SettingsArgs == {<<TRUE, TRUE, TRUE, FALSE, "PT1M", 3, "PT1H", 0>>}

InitCreate ==
    /\ subs = (Root :> <<"A">>) @@ (<<"A">> :> <<>>)
    /\ tasks = (Root :> <<>>) @@ (<<"A">> :> <<>>)
    /\ handles = [k \in Slots |-> NonePy]
    /\ ret = NoRet
    /\ df = <<>>

NextCreate ==
    \/ \E f \in FolderNames, tt \in TriggerTypes, at \in ActionTypes,
          n \in TaskNames, d \in Descriptions, s \in SettingsArgs :
          CreateTask(f, tt, at, n, d, s)
    \/ \E f \in FolderNames, n \in TaskNames, d \in TaskDefs :
          RegisterIn(f, n, d)

SpecCreate == InitCreate /\ [][NextCreate]_vars

(***************************************************************************)
(* Enumeration.  Folders and tasks are put in place through fresh handles, *)
(* then get_all_tasks walks the provider's tree.                           *)
(***************************************************************************)
\* scheduler.get_folder(parent_name).create_folder(folder_name)
MakeFolder(parent_name, folder_name) ==
    LET f == get_folder(parent_name)
        outcome == IF f.outcome = "ok"
                   THEN create_folder_outcome(f.handle, folder_name)
                   ELSE f.outcome
    IN
    /\ NumFolders < WalkFolders
    /\ outcome = "ok"
    /\ ProviderCreateFolder(f.handle.folder, folder_name)
    /\ ret' = Call("create_folder", outcome, "fresh", f.handle.folder, folder_name, <<>>)
    /\ UNCHANGED <<handles, df>>

\* scheduler.get_folder(folder_name).register_new_task(task_name, taskdef)
MakeTask(folder_name, task_name, new_taskdef) ==
    /\ NumTasks < WalkTasks
    /\ get_folder(folder_name).outcome = "ok"
    /\ ~ProviderHasTask(get_folder(folder_name).handle.folder, task_name)
    /\ register_new_task(get_folder(folder_name).handle, task_name, new_taskdef)
    /\ ret' = Call("register_new_task", "ok", "fresh",
                   get_folder(folder_name).handle.folder, task_name,
                   [def |-> new_taskdef, existed |-> FALSE])
    /\ UNCHANGED <<handles, df>>

\* scheduler.get_all_tasks(): the task_path column of the frame it returns
GetAllTasks ==
    LET r == get_all_tasks IN
    /\ ret' = Call("get_all_tasks", r.outcome, "fresh", Root, "None",
                   IF r.outcome = "ok"
                   THEN [i \in 1..Len(r.list) |-> r.list[i].task_path]
                   ELSE <<>>)
    /\ UNCHANGED <<subs, tasks, handles, df>>

\* scheduler.get_folder(folder_name)
LookUp(folder_name) ==
    LET r == get_folder(folder_name) IN
    /\ ret' = Call("get_folder", r.outcome, "fresh", <<>>, folder_name,
                   IF r.outcome = "ok" THEN r.handle.folder ELSE <<>>)
    /\ UNCHANGED <<subs, tasks, handles, df>>

WalkDef == [NewTaskDef EXCEPT !.triggers = <<"TASK_TRIGGER_DAILY">>,
                              !.actions = <<"TASK_ACTION_EXEC">>,
                              !.description = "d1"]

NextWalk ==
    \/ \E p \in FolderNames \cup {"None"}, n \in FolderNames : MakeFolder(p, n)
    \/ \E f \in FolderNames \cup {"None"}, n \in TaskNames : MakeTask(f, n, WalkDef)
    \/ GetAllTasks
    \/ \E n \in FolderNames \cup {"None"} : LookUp(n)

SpecWalk == Init /\ [][NextWalk]_vars

(***************************************************************************)
(* TasksDataFrame's day-window queries.  A timestamp is a naive datetime   *)
(* [day, sec, usec]: the day number, the second of the day and the         *)
(* microsecond of the second; a date is a day number; a null timestamp is  *)
(* NonePy.  A row carries the two timestamp columns the queries read.      *)
(***************************************************************************)
MAX_HOUR == 23
MAX_MIN == 59
MAX_SEC == 59
MAX_MSEC == 999999

Before(a, b) ==
    \/ a.day < b.day
    \/ a.day = b.day /\ a.sec < b.sec
    \/ a.day = b.day /\ a.sec = b.sec /\ a.usec < b.usec

NotAfter(a, b) == a = b \/ Before(a, b)

\* datetime.date()
date(dt) == dt.day

\* timedelta(hours=, minutes=, seconds=, microseconds=), normalised to
\* days, seconds and microseconds as Python does
timedelta(hours, minutes, seconds, microseconds) ==
    LET s == hours * 3600 + minutes * 60 + seconds + (microseconds \div 1000000)
    IN  [days |-> s \div 86400, seconds |-> s % 86400,
         microseconds |-> microseconds % 1000000]

\* date + timedelta: a date; only the timedelta's days are added
date_plus(d, td) == d + td.days

\* a date bound compared with a Datetime column is taken at 00:00:00
as_datetime(d) == [day |-> d, sec |-> 0, usec |-> 0]

\* Expr.is_between(lower, upper), closed on both ends; null is not between
is_between(x, lower, upper) ==
    /\ x # NonePy
    /\ NotAfter(lower, x)
    /\ NotAfter(x, upper)

\* DataFrame.sort(col): rows in ascending order of col, by insertion
RECURSIVE insert_sorted(_, _, _), sort(_, _)
insert_sorted(rows, r, col) ==
    IF rows = <<>> THEN <<r>>
    ELSE IF Before(r[col], Head(rows)[col]) THEN <<r>> \o rows
    ELSE <<Head(rows)>> \o insert_sorted(Tail(rows), r, col)

sort(rows, col) ==
    IF rows = <<>> THEN <<>>
    ELSE insert_sorted(sort(SubSeq(rows, 1, Len(rows) - 1), col), rows[Len(rows)], col)

Reverse(rows) == [i \in 1..Len(rows) |-> rows[Len(rows) + 1 - i]]

\* DataFrame.sort(col, descending=True)
sort_descending(rows, col) == Reverse(sort(rows, col))

\* get_tasks_completed_today without its lower bound
get_tasks_completed_today_no_lower(rows, now) ==
    sort_descending(
      SelectSeq(rows, LAMBDA r : r.last_run_time # NonePy /\ NotAfter(r.last_run_time, now)),
      "last_run_time")

\* get_tasks_completed_today at the instant now
get_tasks_completed_today(rows, now) ==
    LET todays_date == date(now)
        current_datetime == now
    IN  sort_descending(
          SelectSeq(rows, LAMBDA r : is_between(r.last_run_time,
                                                as_datetime(todays_date),
                                                current_datetime)),
          "last_run_time")

\* the upper_date get_tasks_due_today computes at the instant now
due_today_upper_date(now) ==
    LET thour == now.sec \div 3600
        tmin == (now.sec % 3600) \div 60
        tsec == now.sec % 60
        tmsec == now.usec
    IN  date_plus(date(now),
                  timedelta(MAX_HOUR - thour, MAX_MIN - tmin, MAX_SEC - tsec,
                            MAX_MSEC - tmsec))

\* get_tasks_due_today at the instant now
get_tasks_due_today(rows, now) ==
    LET lower_date == now
        upper_date == due_today_upper_date(now)
    IN  sort(SelectSeq(rows, LAMBDA r : is_between(r.next_run_time, lower_date,
                                                   as_datetime(upper_date))),
             "next_run_time")

\* the timestamps rows and clocks are drawn from: three days, and on each
\* the first instant, 10:00:00 and the last microsecond
TimesOfDay == {<<0, 0>>, <<36000, 0>>, <<86399, 999999>>}
Stamps == {[day |-> d, sec |-> t[1], usec |-> t[2]] : d \in {0, 1, 2}, t \in TimesOfDay}
Nows == {x \in Stamps : x.day = 1}

Rows ==
    {[next_run_time |-> x, last_run_time |-> NonePy] : x \in Stamps}
      \cup {[next_run_time |-> NonePy, last_run_time |-> x] : x \in Stamps \cup {NonePy}}

RECURSIVE SeqsUpTo(_, _)
SeqsUpTo(S, n) ==
    IF n = 0 THEN {<<>>}
    ELSE SeqsUpTo(S, n - 1) \cup
         {Append(q, x) : q \in {z \in SeqsUpTo(S, n - 1) : Len(z) = n - 1}, x \in S}

\* TasksDataFrame(df).get_tasks_due_today(), the clock reading now
GetTasksDueToday(now) ==
    /\ ret' = Call("get_tasks_due_today", "ok", "None", <<>>, "None",
                   [now |-> now,
                    upper |-> as_datetime(due_today_upper_date(now)),
                    rows |-> get_tasks_due_today(df, now)])
    /\ UNCHANGED <<subs, tasks, handles, df>>

\* TasksDataFrame(df).get_tasks_completed_today(), the clock reading now
GetTasksCompletedToday(now) ==
    /\ ret' = Call("get_tasks_completed_today", "ok", "None", <<>>, "None",
                   [now |-> now, rows |-> get_tasks_completed_today(df, now)])
    /\ UNCHANGED <<subs, tasks, handles, df>>

InitFrame ==
    /\ subs = (Root :> <<>>)
    /\ tasks = (Root :> <<>>)
    /\ handles = [k \in Slots |-> NonePy]
    /\ ret = NoRet
    /\ df \in SeqsUpTo(Rows, MaxRows)

NextFrame ==
    \/ \E now \in Nows : GetTasksDueToday(now)
    \/ \E now \in Nows : GetTasksCompletedToday(now)

SpecFrame == InitFrame /\ [][NextFrame]_vars

(***************************************************************************)
(* What the enumeration claims speak of: the tasks of the provider's tree  *)
(* and its depth-first listing, tasks before subfolders, by path.          *)
(***************************************************************************)
TaskPathsIn(path) == [i \in 1..Len(tasks[path]) |-> Append(path, tasks[path][i].name)]

AllTaskPaths == UNION {Range(TaskPathsIn(p)) : p \in Folders}

RECURSIVE DepthFirst(_)
DepthFirst(path) ==
    TaskPathsIn(path)
      \o Concat([i \in 1..Len(subs[path]) |-> DepthFirst(Append(path, subs[path][i]))])

Count(s, x) == Cardinality({i \in 1..Len(s) : s[i] = x})

Rank(x) == CHOOSE i \in 1..Len(DepthFirst(Root)) : DepthFirst(Root)[i] = x

\* some folder name is used by two folders of the tree
DuplicateFolderName ==
    \E p, q \in Folders \ {Root} : p # q /\ p[Len(p)] = q[Len(q)]

Walked == ret.op = "get_all_tasks"

\* C1: get_all_tasks returns exactly one record for every task reachable
\* from the root, whatever the folder names: none missing, none twice.
C1_EveryTaskOnce ==
    (Walked /\ ret.outcome = "ok") =>
        /\ \A tp \in AllTaskPaths : Count(ret.val, tp) = 1
        /\ Range(ret.val) \subseteq AllTaskPaths

\* C2: get_all_tasks returns on every finite folder tree, whatever the
\* folder names: the walk never recurses without end.
C2_WalkReturns == Walked => ret.outcome # "RecursionError"

\* C3: the records get_all_tasks returns are in depth-first order, a
\* folder's own tasks before its subfolders' and one subfolder's subtree
\* before the next sibling's: no record comes before one that precedes it
\* in the depth-first listing of the tree.
C3_DepthFirstOrder ==
    (Walked /\ ret.outcome = "ok") =>
        \A i, j \in 1..Len(ret.val) :
            (i < j /\ ret.val[i] \in AllTaskPaths /\ ret.val[j] \in AllTaskPaths)
                => Rank(ret.val[i]) <= Rank(ret.val[j])

(***************************************************************************)
(* What the day-window claims speak of.                                    *)
(***************************************************************************)
StartOfDay(now) == [day |-> now.day, sec |-> 0, usec |-> 0]
EndOfDay(now) == [day |-> now.day, sec |-> 86399, usec |-> 999999]

\* out holds exactly the rows of rows that satisfy P, each as often
SameRows(out, rows, P(_)) ==
    \A r \in Range(rows) \cup Range(out) :
        Count(out, r) = Count(SelectSeq(rows, P), r)

\* C4: get_tasks_due_today at now returns exactly the rows whose next-run
\* lies in [now, 23:59:59.999999 of now's day], ascending by next-run, and
\* the upper bound it computes is 23:59:59.999999 of now's day.
C4_DueTodayWindow ==
    ret.op = "get_tasks_due_today" =>
        /\ ret.val.upper = EndOfDay(ret.val.now)
        /\ SameRows(ret.val.rows, df,
                    LAMBDA r : /\ r.next_run_time # NonePy
                               /\ NotAfter(ret.val.now, r.next_run_time)
                               /\ NotAfter(r.next_run_time, EndOfDay(ret.val.now)))
        /\ \A i \in 1..(Len(ret.val.rows) - 1) :
              NotAfter(ret.val.rows[i].next_run_time, ret.val.rows[i + 1].next_run_time)

\* C5 as claimed: get_tasks_completed_today at now returns exactly the rows
\* whose last-run lies in the half-open [00:00:00 of now's day, now),
\* descending by last-run.
C5_CompletedHalfOpen ==
    ret.op = "get_tasks_completed_today" =>
        /\ SameRows(ret.val.rows, df,
                    LAMBDA r : /\ r.last_run_time # NonePy
                               /\ NotAfter(StartOfDay(ret.val.now), r.last_run_time)
                               /\ Before(r.last_run_time, ret.val.now))
        /\ \A i \in 1..(Len(ret.val.rows) - 1) :
              NotAfter(ret.val.rows[i + 1].last_run_time, ret.val.rows[i].last_run_time)

\* C5 as amended: get_tasks_completed_today at now returns exactly the rows
\* whose last-run lies in the closed [00:00:00 of now's day, now] (a last-run
\* equal to now is included, one before today's midnight is not), descending
\* by last-run.
C5_CompletedClosed ==
    ret.op = "get_tasks_completed_today" =>
        /\ SameRows(ret.val.rows, df,
                    LAMBDA r : /\ r.last_run_time # NonePy
                               /\ NotAfter(StartOfDay(ret.val.now), r.last_run_time)
                               /\ NotAfter(r.last_run_time, ret.val.now))
        /\ \A i \in 1..(Len(ret.val.rows) - 1) :
              NotAfter(ret.val.rows[i + 1].last_run_time, ret.val.rows[i].last_run_time)

\* a call at 10:00:00 on a frame with a last-run at now and one on the day
\* before: the first is returned, the second is not
C5_Witness ==
    /\ ret.op = "get_tasks_completed_today"
    /\ ret.val.now.sec = 36000
    /\ \E r \in Range(ret.val.rows) : r.last_run_time = ret.val.now
    /\ \E r \in Range(df) :
          /\ r.last_run_time # NonePy
          /\ r.last_run_time.day < ret.val.now.day
          /\ r \notin Range(ret.val.rows)

(***************************************************************************)
(* What the task creation and folder handle claims speak of.               *)
(***************************************************************************)
Unsupported == {"com-handler", "email", "show-message"}

\* the provider holds subfolder name in the folder at path
HasFolder(path, name) == path \in Folders /\ name \in Range(subs[path])

\* some folder under the root is called name
FolderNamed(name) == \E p \in Folders \ {Root} : p[Len(p)] = name

\* the last call went as far as folder.register_new_task
Registers(r) ==
    \/ r.op = "register_new_task" /\ r.outcome # "ValueError"
    \/ r.op = "create_task" /\ r.val.calls[Len(r.val.calls)] = "register_new_task"

Registered(r) == IF r.op = "create_task" THEN r.val.obj ELSE r.val.def

\* C6 as claimed: create_task with an unsupported action kind raises
\* NotImplementedError for every trigger_type, with the trigger built on the
\* definition first, and registers nothing.
C6_UnsupportedAction ==
    [][(ret'.op = "create_task" /\ ret'.val.action_type \in Unsupported) =>
          /\ ret'.outcome = "NotImplementedError"
          /\ Len(ret'.val.obj.triggers) = 1
          /\ tasks' = tasks /\ subs' = subs]_vars

\* C6 as amended: when get_folder finds the target folder, create_task with
\* an unsupported action kind raises NotImplementedError for every
\* trigger_type, with the trigger built on the definition first, and
\* registers nothing.
C6_UnsupportedActionInFolder ==
    [][(/\ ret'.op = "create_task"
        /\ ret'.val.action_type \in Unsupported
        /\ get_folder(ret'.val.folder_name).outcome = "ok") =>
          /\ ret'.outcome = "NotImplementedError"
          /\ Len(ret'.val.obj.triggers) = 1
          /\ tasks' = tasks /\ subs' = subs]_vars

\* a monthlydow / email call on folder A: NotImplementedError, the trigger on
\* the definition, and a task registered by an earlier call still there
C6_Witness ==
    /\ ret.op = "create_task"
    /\ ret.val.trigger_type = "monthlydow" /\ ret.val.action_type = "email"
    /\ ret.val.folder_name = "A"
    /\ ret.outcome = "NotImplementedError"
    /\ ret.val.obj.triggers = <<"TASK_TRIGGER_MONTHLYDOW">>
    /\ NumTasks = 1

\* C7: registration is create-or-update: a folder never holds two tasks of
\* one name, no registration raises AlreadyExists, and registering under a
\* name the folder already holds replaces that task's definition by the new
\* one and leaves the folder's other tasks as they were.
C7_CreateOrUpdate ==
    /\ [](\A p \in Folders : Cardinality(Range(Names(tasks[p]))) = Len(tasks[p]))
    /\ [](ret.outcome # "AlreadyExists")
    /\ [][(Registers(ret') /\ ProviderHasTask(ret'.arg.folder, ret'.arg.name)) =>
             /\ ret'.outcome = "ok"
             /\ Len(tasks'[ret'.arg.folder]) = Len(tasks[ret'.arg.folder])
             /\ \A i \in 1..Len(tasks[ret'.arg.folder]) :
                   tasks'[ret'.arg.folder][i] =
                     IF tasks[ret'.arg.folder][i].name = ret'.arg.name
                     THEN [name |-> ret'.arg.name, def |-> Registered(ret')]
                     ELSE tasks[ret'.arg.folder][i]]_vars

\* create_task has just registered a weekly task in folder A under a name
\* the folder already held, and the folder holds that one task
C7_Witness ==
    /\ ret.op = "create_task" /\ ret.outcome = "ok"
    /\ ret.arg.folder = <<"A">>
    /\ ret.val.trigger_type = "weekly"
    /\ ret.val.existed
    /\ Len(tasks[<<"A">>]) = 1
    /\ tasks[<<"A">>][1] = [name |-> ret.arg.name, def |-> ret.val.obj]
    /\ NumTasks = MaxTasks

\* C8: every presence check made through a folder handle agrees with what
\* the provider holds when the call is made: get_task finds a task exactly
\* when the folder has it, create_folder / delete_folder see a subfolder
\* exactly when the folder has it, and info() lists the folder's subfolders
\* and tasks.
C8_QueriesReadLive ==
    [][ret'.arg.folder \in Folders =>
          /\ ret'.op = "get_task" =>
                (ret'.outcome = "ok" <=> ProviderHasTask(ret'.arg.folder, ret'.arg.name))
          /\ ret'.op = "create_folder" =>
                (ret'.outcome = "ValueError" <=> HasFolder(ret'.arg.folder, ret'.arg.name))
          /\ ret'.op = "delete_folder" =>
                (ret'.outcome = "ValueError" <=> ~HasFolder(ret'.arg.folder, ret'.arg.name))
          /\ ret'.op = "info" =>
                /\ ret'.val.subfolders = subs[ret'.arg.folder]
                /\ ret'.val.tasks = Names(tasks[ret'.arg.folder])]_vars

\* C9: get_folder, delete_folder and get_task raise the wrapper's NotFound
\* error (ValueError) whenever the named folder or task is absent from the
\* provider, and the provider is then left unchanged.
C9_NotFound ==
    [][/\ (ret'.op = "get_folder" /\ ret'.arg.name # "None" /\ ~FolderNamed(ret'.arg.name)) =>
             (ret'.outcome = "ValueError" /\ subs' = subs /\ tasks' = tasks)
       /\ (ret'.op = "delete_folder" /\ ~HasFolder(ret'.arg.folder, ret'.arg.name)) =>
             (ret'.outcome = "ValueError" /\ subs' = subs /\ tasks' = tasks)
       /\ (ret'.op = "get_task" /\ ~ProviderHasTask(ret'.arg.folder, ret'.arg.name)) =>
             (ret'.outcome = "ValueError" /\ subs' = subs /\ tasks' = tasks)]_vars

\* C10: create_folder(name) on a folder that has a subfolder called name
\* raises the wrapper's AlreadyExists error (ValueError) and leaves the
\* folder tree unchanged.
C10_AlreadyExists ==
    [][(ret'.op = "create_folder" /\ HasFolder(ret'.arg.folder, ret'.arg.name)) =>
          (ret'.outcome = "ValueError" /\ subs' = subs)]_vars

(***************************************************************************)
(* RegisteredTask.__extract_action_execpath.  The task's XML text, parsed, *)
(* is a tree of elements [tag, text, children]; an element without text    *)
(* has text NoText, as ElementTree gives None.  findall(tag) is the        *)
(* element's direct children with that tag, in document order.             *)
(***************************************************************************)
MaxActions == 2

NoText == "None"

Element(tag, text, children) == [tag |-> tag, text |-> text, children |-> children]

findall(element, tag) == SelectSeq(element.children, LAMBDA e : e.tag = tag)

\* for command in exe.findall(Command): exepath = command.text
RECURSIVE loop_commands(_, _)
loop_commands(commands, exepath) ==
    IF commands = <<>> THEN exepath
    ELSE loop_commands(Tail(commands), Head(commands).text)

\* for exe in act.findall(Exec): ...
RECURSIVE loop_execs(_, _)
loop_execs(execs, exepath) ==
    IF execs = <<>> THEN exepath
    ELSE loop_execs(Tail(execs),
                    loop_commands(findall(Head(execs), "Command"), exepath))

\* for act in root.findall(Actions): ...
RECURSIVE loop_actions(_, _)
loop_actions(acts, exepath) ==
    IF acts = <<>> THEN exepath
    ELSE loop_actions(Tail(acts),
                      loop_execs(findall(Head(acts), "Exec"), exepath))

\* the same loops, keeping the first Command met instead of the last
RECURSIVE loop_commands_first(_, _, _)
loop_commands_first(commands, exepath, found) ==
    IF commands = <<>> THEN [exepath |-> exepath, found |-> found]
    ELSE IF found THEN [exepath |-> exepath, found |-> TRUE]
    ELSE loop_commands_first(Tail(commands), Head(commands).text, TRUE)

RECURSIVE loop_execs_first(_, _, _)
loop_execs_first(execs, exepath, found) ==
    IF execs = <<>> THEN [exepath |-> exepath, found |-> found]
    ELSE LET r == loop_commands_first(findall(Head(execs), "Command"), exepath, found)
         IN  loop_execs_first(Tail(execs), r.exepath, r.found)

RECURSIVE loop_actions_first(_, _, _)
loop_actions_first(acts, exepath, found) ==
    IF acts = <<>> THEN exepath
    ELSE LET r == loop_execs_first(findall(Head(acts), "Exec"), exepath, found)
         IN  loop_actions_first(Tail(acts), r.exepath, r.found)

extract_action_execpath_first(xml) ==
    loop_actions_first(findall(xml, "Actions"), "", FALSE)

extract_action_execpath(xml) ==
    LET exepath == ""
        root == xml
    IN  loop_actions(findall(root, "Actions"), exepath)

\* the documents tasks are drawn from
Command(text) == Element("Command", text, <<>>)
Arguments == Element("Arguments", "x", <<>>)
ExecElements ==
    {Element("Exec", NoText, cs) :
        cs \in {<<>>, <<Command("a")>>, <<Command("b")>>, <<Command(NoText)>>,
                <<Arguments, Command("a")>>, <<Command("a"), Command("b")>>}}
ActionElements == ExecElements \cup {Element("ComHandler", NoText, <<>>)}
ActionsElements == {Element("Actions", NoText, as) : as \in SeqsUpTo(ActionElements, MaxActions)}
TriggersElement == Element("Triggers", NoText, <<>>)
SecondActions ==
    {Element("Actions", NoText, <<>>),
     Element("Actions", NoText, <<Element("Exec", NoText, <<Command("c")>>)>>)}
Xmls ==
    {Element("Task", NoText, cs) :
        cs \in {<<>>, <<TriggersElement>>}
               \cup {<<TriggersElement, a>> : a \in ActionsElements}
               \cup {<<a, b>> : a \in ActionsElements, b \in SecondActions}}

\* RegisteredTask(rtask).info()["execution_path"] for the task at the root
ExtractActionExecpath ==
    /\ tasks[Root] # <<>>
    /\ ret.op = "none"
    /\ ret' = Call("extract_action_execpath", "ok", "None", <<>>,
                   tasks[Root][1].name,
                   [execution_path |-> extract_action_execpath(tasks[Root][1].xml)])
    /\ UNCHANGED <<subs, tasks, handles, df>>

InitXml ==
    /\ subs = (Root :> <<>>)
    /\ \E x \in Xmls : tasks = (Root :> <<[name |-> "t1", xml |-> x]>>)
    /\ handles = [k \in Slots |-> NonePy]
    /\ ret = NoRet
    /\ df = <<>>

NextXml == ExtractActionExecpath

SpecXml == InitXml /\ [][NextXml]_vars

(***************************************************************************)
(* Claim C11.                                                              *)
(***************************************************************************)
\* the Command elements at Actions -> Exec -> Command, as positions
\* <<i, j, k>>: the k-th child of the j-th child of the i-th child of the root
CommandPositions(xml) ==
    {<<i, j, k>> \in (1..Len(xml.children)) \X (1..MaxActions + 1) \X (1..2) :
        /\ xml.children[i].tag = "Actions"
        /\ j <= Len(xml.children[i].children)
        /\ xml.children[i].children[j].tag = "Exec"
        /\ k <= Len(xml.children[i].children[j].children)
        /\ xml.children[i].children[j].children[k].tag = "Command"}

\* document order of two positions
Earlier(p, q) ==
    \/ p[1] < q[1]
    \/ p[1] = q[1] /\ p[2] < q[2]
    \/ p[1] = q[1] /\ p[2] = q[2] /\ p[3] < q[3]

HasExec(xml) ==
    \E i \in 1..Len(xml.children) :
        /\ xml.children[i].tag = "Actions"
        /\ \E j \in 1..Len(xml.children[i].children) :
              xml.children[i].children[j].tag = "Exec"

Extracted == ret.op = "extract_action_execpath"

\* C11: the extracted path is the text of the last Command element in
\* document order under Actions -> Exec -> Command, and it is the empty
\* string, returned without an error, when the definition has no Exec action.
C11_LastCommandWins ==
    Extracted =>
        LET xml == tasks[Root][1].xml
            ps == CommandPositions(xml)
        IN  /\ ret.outcome = "ok"
            /\ \A p \in ps :
                 (\A q \in ps : q = p \/ Earlier(q, p)) =>
                    ret.val.execution_path = xml.children[p[1]].children[p[2]].children[p[3]].text
            /\ ~HasExec(xml) => ret.val.execution_path = ""

\* two Exec actions with different commands were read
C11_Witness ==
    /\ Extracted
    /\ \E p, q \in CommandPositions(tasks[Root][1].xml) :
          /\ p[2] # q[2] /\ p[1] = q[1]
          /\ Earlier(p, q)
          /\ tasks[Root][1].xml.children[p[1]].children[p[2]].children[p[3]].text = "a"
          /\ tasks[Root][1].xml.children[q[1]].children[q[2]].children[q[3]].text = "b"
          /\ ret.val.execution_path = "b"

(***************************************************************************)
(* TasksDataFrame.preprocess.  A task_path is a text, kept as the sequence *)
(* of its characters so that it can be split; a state or result code is an *)
(* integer, and its text form a string.  A row carries the three columns   *)
(* the derived columns are computed from.                                  *)
(***************************************************************************)
MaxPathLen == 5

Sep == "\\"

Digit == [d \in 0..9 |-> <<"0", "1", "2", "3", "4", "5", "6", "7", "8", "9">>[d + 1]]

\* cast(str) of an integer column: the decimal text of the value
RECURSIVE cast_str(_)
cast_str(n) ==
    IF n < 0 THEN "-" \o cast_str(0 - n)
    ELSE IF n < 10 THEN Digit[n]
    ELSE cast_str(n \div 10) \o Digit[n % 10]

\* TaskValueDefinitions.TASK_STATE_DEFINITION: text of the code -> label
TASK_STATE_DEFINITION ==
    [k \in {"0", "1", "2", "3", "4"} |->
        CASE k = "0" -> "Unknown"
          [] k = "1" -> "Disabled"
          [] k = "2" -> "Queued"
          [] k = "3" -> "Ready"
          [] k = "4" -> "Running"]

\* TaskValueDefinitions.TASK_RESULT_DEFINITION: text of the code -> label
TASK_RESULT_DEFINITION ==
    [k \in {"0", "1", "2"} |->
        CASE k = "0" -> "The operation completed successfully"
          [] k = "1" -> "Incorrect function called or unknown function called"
          [] k = "2" -> "File not found"]

\* a replace that gives null for a value the mapping lacks
replace_or_null(x, mapping) == IF x \in DOMAIN mapping THEN mapping[x] ELSE "None"

\* Expr.replace(mapping): a value the mapping has is replaced by its entry,
\* any other value is kept
replace(x, mapping) == IF x \in DOMAIN mapping THEN mapping[x] ELSE x

\* Expr.str.split(by): the pieces of s between the separators
RECURSIVE str_split_from(_, _, _)
str_split_from(s, by, piece) ==
    IF s = <<>> THEN <<piece>>
    ELSE IF Head(s) = by THEN <<piece>> \o str_split_from(Tail(s), by, <<>>)
    ELSE str_split_from(Tail(s), by, Append(piece, Head(s)))

str_split(s, by) == str_split_from(s, by, <<>>)

\* Expr.list.slice(offset, length)
list_slice(l, offset, length) ==
    SubSeq(l, offset + 1, IF offset + length <= Len(l) THEN offset + length ELSE Len(l))

\* Expr.list.first(): null for an empty list
list_first(l) == IF l = <<>> THEN <<"None">> ELSE l[1]

\* the same column taken from the head of the list
task_folder_name_head(segments) ==
    IF Len(segments) <= 2 THEN <<Sep>>
    ELSE list_first(list_slice(segments, 0, 2))

\* the second with_columns of preprocess: the derived task_folder_name
task_folder_name(segments) ==
    IF Len(segments) <= 2 THEN <<Sep>>
    ELSE list_first(list_slice(segments, 1, 2))

\* preprocess of one row
preprocess_row(r) ==
    [task_path |-> r.task_path,
     task_folder_name |-> task_folder_name(str_split(r.task_path, Sep)),
     task_state |-> r.task_state,
     task_state_definition |-> replace(cast_str(r.task_state), TASK_STATE_DEFINITION),
     last_task_result |-> r.last_task_result,
     last_task_result_definition |->
         replace(cast_str(r.last_task_result), TASK_RESULT_DEFINITION)]

preprocess(rows) == [i \in 1..Len(rows) |-> preprocess_row(rows[i])]

PathChars == {Sep, "A", "B"}
Paths == SeqsUpTo(PathChars, MaxPathLen)
Codes == {<<0, 0>>, <<3, 1>>, <<4, 12>>, <<7, 0 - 3>>, <<10, 2>>}
ViewRows ==
    {[task_path |-> p, task_state |-> c[1], last_task_result |-> c[2]] :
        p \in Paths, c \in Codes}

\* TasksDataFrame(df).preprocess()
Preprocess ==
    /\ df # <<>>
    /\ ret.op = "none"
    /\ ret' = Call("preprocess", "ok", "None", <<>>, "None", [rows |-> preprocess(df)])
    /\ UNCHANGED <<subs, tasks, handles, df>>

InitView ==
    /\ subs = (Root :> <<>>)
    /\ tasks = (Root :> <<>>)
    /\ handles = [k \in Slots |-> NonePy]
    /\ ret = NoRet
    /\ \E r \in ViewRows : df = <<r>>

NextView == Preprocess

SpecView == InitView /\ [][NextView]_vars

(***************************************************************************)
(* Claims C12 and C13.                                                     *)
(***************************************************************************)
Preprocessed == ret.op = "preprocess"

\* the number of separators in a text
RECURSIVE Seps(_)
Seps(s) == IF s = <<>> THEN 0 ELSE (IF Head(s) = Sep THEN 1 ELSE 0) + Seps(Tail(s))

\* the positions of the separators in a text, in order
SepPositions(s) == {i \in 1..Len(s) : s[i] = Sep}
NthSep(s, n) == CHOOSE i \in SepPositions(s) : Cardinality({j \in SepPositions(s) : j < i}) = n - 1

\* C12: the derived top folder of a record is "\" when its path splits into
\* at most 2 segments (at most one separator), and otherwise the second
\* segment: the text between the first and the second separator; so for a
\* path that begins with a separator it is "\" or the top-level folder's name.
C12_TopFolder ==
    Preprocessed =>
        \A i \in 1..Len(df) :
            LET s == df[i].task_path
                out == ret.val.rows[i].task_folder_name
            IN  /\ ret.outcome = "ok"
                /\ Len(str_split(s, Sep)) = Seps(s) + 1
                /\ Seps(s) <= 1 => out = <<Sep>>
                /\ Seps(s) >= 2 =>
                     /\ out = str_split(s, Sep)[2]
                     /\ out = SubSeq(s, NthSep(s, 1) + 1, NthSep(s, 2) - 1)
                /\ (s # <<>> /\ s[1] = Sep /\ Seps(s) >= 2) =>
                     out = SubSeq(s, 2, NthSep(s, 2) - 1)

\* the path \A\B\ was preprocessed and gave A
C12_Witness ==
    /\ Preprocessed
    /\ df[1].task_path = <<Sep, "A", Sep, "B", Sep>>
    /\ ret.val.rows[1].task_folder_name = <<"A">>

\* C13: a state code, or a last-result code, without an entry in its lookup
\* table gets its own text form as label, a code with an entry gets the
\* table's label, and preprocess raises nothing.
C13_UnmappedCodes ==
    Preprocessed =>
        \A i \in 1..Len(df) :
            LET st == cast_str(df[i].task_state)
                rs == cast_str(df[i].last_task_result)
                out == ret.val.rows[i]
            IN  /\ ret.outcome = "ok"
                /\ st \notin DOMAIN TASK_STATE_DEFINITION => out.task_state_definition = st
                /\ st \in DOMAIN TASK_STATE_DEFINITION =>
                     out.task_state_definition = TASK_STATE_DEFINITION[st]
                /\ rs \notin DOMAIN TASK_RESULT_DEFINITION =>
                     out.last_task_result_definition = rs
                /\ rs \in DOMAIN TASK_RESULT_DEFINITION =>
                     out.last_task_result_definition = TASK_RESULT_DEFINITION[rs]

\* state code 7 and result code -3, neither in its table, were preprocessed
C13_Witness ==
    /\ Preprocessed
    /\ df[1].task_state = 7
    /\ df[1].last_task_result = 0 - 3
    /\ ret.val.rows[1].task_state_definition = "7"
    /\ ret.val.rows[1].last_task_result_definition = "-3"

(***************************************************************************)
(* Claims C14 and C15.                                                     *)
(***************************************************************************)
\* the statements of a create_task call that runs to its end
CreateTaskOrder ==
    <<"get_folder", "NewTask", "trigger", "action", "description">>
      \o SettingsFields \o <<"register_new_task">>

IsPrefix(s, t) == Len(s) <= Len(t) /\ s = SubSeq(t, 1, Len(s))

TriggerKind ==
    [tt \in TriggerTypes |->
        CASE tt = "daily" -> "TASK_TRIGGER_DAILY"
          [] tt = "weekly" -> "TASK_TRIGGER_WEEKLY"
          [] tt = "monthly" -> "TASK_TRIGGER_MONTHLY"
          [] tt = "monthlydow" -> "TASK_TRIGGER_MONTHLYDOW"
          [] tt = "one-time" -> "TASK_TRIGGER_TIME"]

C16_DistinctNames ==
    (Walked /\ ~DuplicateFolderName) =>
        /\ ret.outcome = "ok"
        /\ \A tp \in AllTaskPaths : Count(ret.val, tp) = 1
        /\ Range(ret.val) \subseteq AllTaskPaths

\* the folders below path in pre-order: each subfolder, then its subtree,
\* then its next sibling
RECURSIVE PreOrder(_)
PreOrder(path) ==
    Concat([i \in 1..Len(subs[path]) |->
              <<Append(path, subs[path][i])>> \o PreOrder(Append(path, subs[path][i]))])

LookedUp == ret.op = "get_folder"

\* C17: get_folder(name) with a name returns the first folder of that name
\* in the pre-order of the tree, so the folder returned bears the name and no
\* folder earlier in the pre-order does, and raises ValueError when no folder
\* bears it; get_folder() returns the root folder.
C17_FirstInPreOrder ==
    LookedUp =>
        LET pre == PreOrder(Root)
            name == ret.arg.name
            hits == {i \in 1..Len(pre) : pre[i][Len(pre[i])] = name}
        IN  /\ name = "None" => (ret.outcome = "ok" /\ ret.val = Root)
            /\ (name # "None" /\ hits = {}) => ret.outcome = "ValueError"
            /\ (name # "None" /\ hits # {}) =>
                  /\ ret.outcome = "ok"
                  /\ ret.val # Root
                  /\ ret.val[Len(ret.val)] = name
                  /\ \E i \in hits : pre[i] = ret.val /\ \A j \in hits : i <= j

\* with \A\B and \B in the tree, get_folder("B") returned \A\B
C17_Witness ==
    /\ LookedUp /\ ret.outcome = "ok"
    /\ ret.arg.name = "B"
    /\ <<"B">> \in Folders
    /\ ret.val = <<"A", "B">>

====
